---- MODULE Spec2Model ----
(***************************************************************************)
(* A model of purse's persistent singly linked list (src/src/list/list.rs, *)
(* src/src/list/iterator.rs): the Node cells behind Arc<UnsafeCell<..>>,   *)
(* the List handles (strong head, weak tail, cached size) and the          *)
(* operations empty / create / prepend / append / concat / clone / drop /  *)
(* index / last, each as one atomic action of a single-threaded caller.    *)
(***************************************************************************)
EXTENDS Integers, Sequences, FiniteSets, TLC

\* ------------------------------------------------------------------ bounds
\* Number of heap cells that exist in the model.
MaxNodes == 10
\* Number of Nodes a run of Spec may allocate.
MaxAlloc == 3
\* Number of Nodes a run of SpecDeep may allocate.
MaxAllocDeep == 4
\* Number of Nodes a run of SpecUnwind may allocate.
MaxAllocUnwind == 5
\* Number of List values the caller holds at once.
MaxLists == 2
\* Element values are 1..MaxVal.
MaxVal == 2
\* Largest index that Index is called with.
MaxIdx == 3
\* Longest operand of the associativity scenario and of the threads scenario.
MaxLen == 1
\* Number of threads that run concat at the same time.
MaxThreads == 2
\* Longest list that the threads' values are made from.
MaxBase == 2

\* ------------------------------------------------------------- data model
\* Option::None of a Link / WeakLink; a Some(..) is the Node's id.
None == 0
Node == 1..MaxNodes
Slot == 1..MaxLists
Value == 1..MaxVal

\* List::empty(): no head, no tail, size 0.
empty == [head |-> None, tail |-> None, size |-> 0]

\* A slot of the caller that holds no List value.
NoList == [head |-> None, tail |-> None, size |-> -1]

\* A heap cell that holds no Node (never allocated, or deallocated when its
\* strong count reached zero).
Freed == [live |-> FALSE, data |-> 0, next |-> empty, mutating |-> FALSE]

\* Node { data, next, mutating: Arc::new(AtomicBool::new(false)) }
NewNode(data, next) == [live |-> TRUE, data |-> data, next |-> next, mutating |-> FALSE]

VARIABLES
    heap,    \* heap[n]: the Node in cell n
    nalloc,  \* cells 1..nalloc have been allocated (ids are never reused)
    lists,   \* lists[k]: the List value the caller holds in slot k, or NoList
    result,  \* what the last operation returned or how it failed
    pc       \* position of the associativity scenario ("free" in Spec); in the
             \* threads scenario pc[t] is thread t's position inside concat
             \* together with the locals of its call

vars == <<heap, nalloc, lists, result, pc>>

\* The outcome record of an operation: how it ended (res), what it returned
\* or reported (a, b) and how many Nodes it dereferenced (seen).
ResSeen(op, res, a, b, seen) == [op |-> op, res |-> res, a |-> a, b |-> b, seen |-> seen]

Res(op, res, a, b) == ResSeen(op, res, a, b, 0)

\* Outcomes that end the program: a panic or a stack overflow.
Fatal == {"oob", "assert", "unwrap_none", "unwrap_tail", "overflow"}

\* The operations that only read a list. A run is a sequence of list
\* operations ended by at most one of them: they change neither the heap nor
\* the caller's lists, so the runs with reads in their middle reach the same
\* lists.
Reads == {"index", "last", "eq"}

Running == result.res \notin Fatal /\ result.op \notin Reads

Held(ls) == {k \in DOMAIN ls : ls[k] # NoList}

\* ------------------------------------------------------ reference counting
\* Arc::strong_count: the held List values whose head is n plus the live
\* Nodes whose next.head is n. Weak tail links do not count.
strong_count(h, ls, n) ==
    Cardinality({k \in DOMAIN ls : ls[k].head = n})
    + Cardinality({m \in Node : h[m].live /\ h[m].next.head = n})

\* Dropping strong links: every live Node that no root and no live Node's next
\* refers to is deallocated, which drops its own next in turn.
RECURSIVE Sweep(_, _)
Sweep(h, roots) ==
    LET dead == {n \in Node : /\ h[n].live
                              /\ n \notin roots
                              /\ \A m \in Node : ~(h[m].live /\ h[m].next.head = n)}
    IN IF dead = {} THEN h
       ELSE Sweep([n \in Node |-> IF n \in dead THEN Freed ELSE h[n]], roots)

Heads(ls) == {ls[k].head : k \in DOMAIN ls} \ {None}

\* Weak::upgrade: succeeds while the Node is still allocated.
upgrade(h, t) == h[t].live

\* ------------------------------------------------------------ construction
\* new_link(Node { .. }): a fresh cell; "nomem" when the model's heap is used up.
\* List::create(data, rest).
create(h, na, data, rest) ==
    IF na >= MaxNodes THEN [st |-> "nomem", heap |-> h, nalloc |-> na, list |-> NoList]
    ELSE LET n == na + 1 IN
         [st |-> "ok",
          heap |-> [h EXCEPT ![n] = NewNode(data, rest)],
          nalloc |-> n,
          list |-> [head |-> n,
                    tail |-> IF rest.tail # None THEN rest.tail ELSE n,
                    size |-> 1 + rest.size]]

\* Mutant of prepend: the new list's size is not incremented.
prepend_size_not_incremented(h, na, self, data) ==
    IF na >= MaxNodes THEN [st |-> "nomem", heap |-> h, nalloc |-> na, list |-> NoList]
    ELSE LET n == na + 1 IN
         [st |-> "ok",
          heap |-> [h EXCEPT ![n] = NewNode(data, [head |-> self.head,
                                                   tail |-> self.tail,
                                                   size |-> self.size])],
          nalloc |-> n,
          list |-> [head |-> n, tail |-> self.tail, size |-> self.size]]

\* List::prepend(&self, data): the new list keeps self's tail as it is.
prepend(h, na, self, data) ==
    IF na >= MaxNodes THEN [st |-> "nomem", heap |-> h, nalloc |-> na, list |-> NoList]
    ELSE LET n == na + 1 IN
         [st |-> "ok",
          heap |-> [h EXCEPT ![n] = NewNode(data, [head |-> self.head,
                                                   tail |-> self.tail,
                                                   size |-> self.size])],
          nalloc |-> n,
          list |-> [head |-> n, tail |-> self.tail, size |-> 1 + self.size]]

\* FromIterator for List: create(data, from_iter(rest)), List::empty() at the end.
RECURSIVE from_iter(_, _, _)
from_iter(h, na, seq) ==
    IF seq = <<>> THEN [st |-> "ok", heap |-> h, nalloc |-> na, list |-> empty]
    ELSE LET r == from_iter(h, na, Tail(seq)) IN
         IF r.st # "ok" THEN r ELSE create(r.heap, r.nalloc, Head(seq), r.list)

\* List::len
len(l) == l.size

\* ------------------------------------------------------------ concatenation
\* Recursion depth that only a chain leading back into itself can reach.
Fuel == MaxNodes + 1

\* Node::concat_list(&self, start, list): copies the chain that starts at n and
\* attaches `right` where the chain ends. A chain that never reaches an empty
\* link recurses until the stack overflows. The default argument of map_or,
\* List::create(data, list.clone()), is evaluated at every Node and dropped
\* again where a next exists: it leaves no Node behind.
RECURSIVE concat_list(_, _, _, _, _)
concat_list(h, na, n, right, fuel) ==
    IF h[n].next.head = None THEN create(h, na, h[n].data, right)
    ELSE IF fuel = 0 THEN [st |-> "overflow", heap |-> h, nalloc |-> na, list |-> NoList]
    ELSE LET r == concat_list(h, na, h[n].next.head, right, fuel - 1) IN
         IF r.st # "ok" THEN r ELSE create(r.heap, r.nalloc, h[n].data, r.list)

\* List::concat_immut(link, right)
concat_immut(h, na, link, right) == concat_list(h, na, link, right, Fuel)

\* The List that concat_mut works on: the caller's local value (loc = None)
\* or the next field of Node loc.
GetList(s, loc) == IF loc = None THEN s.top ELSE s.heap[loc].next

SetList(s, loc, l) ==
    IF loc = None THEN [s EXCEPT !.top = l] ELSE [s EXCEPT !.heap[loc].next = l]

\* List::concat_mut(&mut self, right), self being the List at loc. held: the
\* Nodes that a List value outside this call keeps alive; pins: the Nodes that
\* the callers' `link` locals keep alive. It first recurses into the head
\* Node's next, then overwrites the next of the Node that self.tail designates
\* (panicking if that Node is gone), then sets self's head, tail and size.
RECURSIVE concat_mut(_, _, _, _, _, _)
concat_mut(s, loc, right, held, pins, fuel) ==
    LET self0 == GetList(s, loc)
        link == self0.head
    IN
    IF link # None /\ fuel = 0 THEN [s EXCEPT !.st = "overflow"]
    ELSE
    LET pins1 == IF link # None THEN pins \cup {link} ELSE pins
        r1 == IF link # None THEN concat_mut(s, link, right, held, pins1, fuel - 1) ELSE s
    IN
    IF r1.st # "ok" THEN r1
    ELSE
    LET t == GetList(r1, loc).tail IN
    IF t # None /\ ~upgrade(r1.heap, t) THEN [r1 EXCEPT !.st = "unwrap_tail"]
    ELSE
    LET w == IF t # None THEN [r1 EXCEPT !.heap[t].next = right] ELSE r1
        r2 == [w EXCEPT !.heap = Sweep(w.heap, held \cup pins1 \cup ({w.top.head} \ {None}))]
        self2 == GetList(r2, loc)
        r3 == SetList(r2, loc, [head |-> IF link # None THEN link ELSE right.head,
                                tail |-> right.tail,
                                size |-> self2.size + right.size])
    IN [r3 EXCEPT !.heap = Sweep(r3.heap, held \cup pins \cup ({r3.top.head} \ {None}))]

\* List::concat(self, right). ls: the caller's List values, self among them
\* (it is moved into the call); extra: the Nodes that temporaries of the caller
\* keep alive. Returns the heap, the list returned (NoList when the call does
\* not return) and the path taken.
concat(h, na, ls, self, right, extra) ==
    LET link == self.head
        held == Heads(ls) \cup extra
    IN
    IF link = None THEN
        [st |-> "ok", path |-> "right", heap |-> h, nalloc |-> na, list |-> right]
    ELSE IF right.size = 0 THEN
        [st |-> "ok", path |-> "self", heap |-> h, nalloc |-> na, list |-> self]
    ELSE IF strong_count(h, ls, link) + (IF right.head = link THEN 1 ELSE 0) # 1
            \/ h[link].mutating THEN
        LET r == concat_immut(h, na, link, right) IN
        [st |-> r.st, path |-> "immut", heap |-> r.heap, nalloc |-> r.nalloc, list |-> r.list]
    ELSE
        LET h1 == [h EXCEPT ![link].mutating = TRUE]
            r == concat_mut([heap |-> h1, top |-> self, st |-> "ok"], None, right,
                            held, {}, Fuel)
        IN IF r.st = "ok"
           THEN [st |-> "ok", path |-> "mut",
                 heap |-> [r.heap EXCEPT ![link].mutating = FALSE],
                 nalloc |-> na, list |-> r.top]
           ELSE [st |-> r.st, path |-> "mut", heap |-> r.heap, nalloc |-> na, list |-> NoList]

\* ----------------------------------------------------------------- reading
\* Number of elements after which an iteration is known to go round a cycle.
IterBound == MaxNodes + 1

\* IntoIter::next, repeated: the data of the Nodes reached by following
\* next.head from l.head, cut after k elements (a chain that leads back into
\* itself yields elements for ever).
RECURSIVE Iterate(_, _, _)
Iterate(h, l, k) ==
    IF l.head = None \/ k = 0 THEN <<>>
    ELSE <<h[l.head].data>> \o Iterate(h, h[l.head].next, k - 1)

Elems(h, l) == Iterate(h, l, IterBound)

\* Node::index(&self, index), counting the Nodes it visits.
RECURSIVE node_index(_, _, _, _)
node_index(h, n, i, seen) ==
    IF i = 0 THEN ResSeen("index", "ok", h[n].data, 0, seen + 1)
    ELSE IF ~(h[n].next.size > 0) THEN ResSeen("index", "assert", 0, 0, seen + 1)
    ELSE IF h[n].next.head = None THEN ResSeen("index", "unwrap_none", 0, 0, seen + 1)
    ELSE node_index(h, h[n].next.head, i - 1, seen + 1)

\* Mutant of index: the bounds check lets index = len through.
index_bound_off_by_one(h, l, i) ==
    IF i > l.size THEN ResSeen("index", "oob", l.size, i, 0)
    ELSE IF l.head = None THEN ResSeen("index", "unwrap_none", 0, 0, 0)
    ELSE node_index(h, l.head, i, 0)

\* Index<usize> for List: the bounds check against the cached size, whose
\* panic message carries the length (a) and the index (b); then Node::index
\* from the head.
index(h, l, i) ==
    IF i >= l.size THEN ResSeen("index", "oob", l.size, i, 0)
    ELSE IF l.head = None THEN ResSeen("index", "unwrap_none", 0, 0, 0)
    ELSE node_index(h, l.head, i, 0)

\* PartialEq for List: sizes first, then the heads' data, then the next lists.
\* Two chains that lead back into themselves recurse until the stack overflows.
RECURSIVE eq(_, _, _, _)
eq(h, a, b, fuel) ==
    IF a.size # b.size THEN "false"
    ELSE IF a.head = None /\ b.head = None THEN "true"
    ELSE IF a.head = None \/ b.head = None THEN "false"
    ELSE IF h[a.head].data # h[b.head].data THEN "false"
    ELSE IF fuel = 0 THEN "overflow"
    ELSE eq(h, h[a.head].next, h[b.head].next, fuel - 1)

\* Recursion depth that eq reaches only by visiting a pair of Nodes twice: the
\* callers that compare lists allocate at most MaxAllocDeep Nodes.
EqFuel == MaxAllocDeep * MaxAllocDeep + 1

\* List::last: None without a tail; otherwise the weak tail is upgraded and
\* unwrapped.
last(h, l) ==
    IF l.tail = None THEN Res("last", "none", 0, 0)
    ELSE IF ~upgrade(h, l.tail) THEN Res("last", "unwrap_tail", 0, 0)
    ELSE Res("last", "some", h[l.tail].data, 0)

\* ----------------------------------------------------------------- actions
FreeSlot == CHOOSE k \in Slot : lists[k] = NoList /\ \A j \in Slot : j < k => lists[j] # NoList

Init ==
    /\ heap = [n \in Node |-> Freed]
    /\ nalloc = 0
    /\ lists = [k \in Slot |-> NoList]
    /\ result = Res("init", "ok", 0, 0)
    /\ pc = "free"

EmptyOp ==
    /\ pc = "free" /\ Running
    /\ Held(lists) # Slot
    /\ lists' = [lists EXCEPT ![FreeSlot] = empty]
    /\ result' = Res("empty", "ok", 0, 0)
    /\ UNCHANGED <<heap, nalloc, pc>>

CreateOp(lim, v, i) ==
    /\ pc = "free" /\ Running
    /\ i \in Held(lists)
    /\ LET r == create(heap, nalloc, v, lists[i]) IN
       /\ r.st = "ok" /\ r.nalloc <= lim
       /\ heap' = r.heap
       /\ nalloc' = r.nalloc
       /\ lists' = [lists EXCEPT ![i] = r.list]
    /\ result' = Res("create", "ok", 0, 0)
    /\ UNCHANGED pc

PrependOp(lim, i, v) ==
    /\ pc = "free" /\ Running
    /\ i \in Held(lists)
    /\ Held(lists) # Slot
    /\ LET r == prepend(heap, nalloc, lists[i], v) IN
       /\ r.st = "ok" /\ r.nalloc <= lim
       /\ heap' = r.heap
       /\ nalloc' = r.nalloc
       /\ lists' = [lists EXCEPT ![FreeSlot] = r.list]
    /\ result' = Res("prepend", "ok", 0, 0)
    /\ UNCHANGED pc

\* #[derive(Clone)] for List: the handles and the size are copied.
CloneOp(i) ==
    /\ pc = "free" /\ Running
    /\ i \in Held(lists)
    /\ Held(lists) # Slot
    /\ lists' = [lists EXCEPT ![FreeSlot] = lists[i]]
    /\ result' = Res("clone", "ok", 0, 0)
    /\ UNCHANGED <<heap, nalloc, pc>>

\* The caller lets a List value go out of scope.
DropOp(i) ==
    /\ pc = "free" /\ Running
    /\ i \in Held(lists)
    /\ LET ls == [lists EXCEPT ![i] = NoList] IN
       /\ lists' = ls
       /\ heap' = Sweep(heap, Heads(ls))
    /\ result' = Res("drop", "ok", 0, 0)
    /\ UNCHANGED <<nalloc, pc>>

\* self.concat(&right) with self moved out of slot i and right borrowed from
\* slot j; the returned list takes slot i. A panic unwinds: self is dropped.
ConcatOp(lim, i, j) ==
    /\ pc = "free" /\ Running
    /\ i \in Held(lists) /\ j \in Held(lists) /\ i # j
    /\ LET r == concat(heap, nalloc, lists, lists[i], lists[j], {})
           ls == [lists EXCEPT ![i] = r.list]
       IN
       /\ r.st # "nomem" /\ r.nalloc <= lim
       /\ lists' = ls
       /\ heap' = Sweep(r.heap, Heads(ls))
       /\ nalloc' = r.nalloc
       /\ result' = Res("concat", IF r.st = "ok" THEN r.path ELSE r.st, 0, 0)
    /\ UNCHANGED pc

\* List::append(self, data): self.concat(&List::create(data, List::empty())).
AppendOp(lim, i, v) ==
    /\ pc = "free" /\ Running
    /\ i \in Held(lists)
    /\ LET c == create(heap, nalloc, v, empty) IN
       /\ c.st = "ok"
       /\ LET r == concat(c.heap, c.nalloc, lists, lists[i], c.list, {c.list.head})
              ls == [lists EXCEPT ![i] = r.list]
          IN
          /\ r.st # "nomem" /\ r.nalloc <= lim
          /\ lists' = ls
          /\ heap' = Sweep(r.heap, Heads(ls))
          /\ nalloc' = r.nalloc
          /\ result' = Res("append", IF r.st = "ok" THEN r.path ELSE r.st, 0, 0)
    /\ UNCHANGED pc

\* list[idx]
IndexOp(i, idx) ==
    /\ pc = "free" /\ Running
    /\ i \in Held(lists)
    /\ result' = index(heap, lists[i], idx)
    /\ UNCHANGED <<heap, nalloc, lists, pc>>

\* list.last()
LastOp(i) ==
    /\ pc = "free" /\ Running
    /\ i \in Held(lists)
    /\ result' = last(heap, lists[i])
    /\ UNCHANGED <<heap, nalloc, lists, pc>>

\* a == b
EqOp(i, j) ==
    /\ pc = "free" /\ Running
    /\ i \in Held(lists) /\ j \in Held(lists)
    /\ result' = Res("eq", eq(heap, lists[i], lists[j], EqFuel), 0, 0)
    /\ UNCHANGED <<heap, nalloc, lists, pc>>

Next ==
    \/ EmptyOp
    \/ \E v \in Value, i \in Slot : CreateOp(MaxAlloc, v, i)
    \/ \E i \in Slot, v \in Value : PrependOp(MaxAlloc, i, v)
    \/ \E i \in Slot : CloneOp(i)
    \/ \E i \in Slot : DropOp(i)
    \/ \E i \in Slot, j \in Slot : ConcatOp(MaxAlloc, i, j)
    \/ \E i \in Slot, v \in Value : AppendOp(MaxAlloc, i, v)
    \/ \E i \in Slot, idx \in 0..MaxIdx : IndexOp(i, idx)
    \/ \E i \in Slot : LastOp(i)
    \/ \E i \in Slot, j \in Slot : EqOp(i, j)

Spec == Init /\ [][Next]_vars

\* The same caller with one more Node to allocate and without index.
NextDeep ==
    \/ EmptyOp
    \/ \E v \in Value, i \in Slot : CreateOp(MaxAllocDeep, v, i)
    \/ \E i \in Slot, v \in Value : PrependOp(MaxAllocDeep, i, v)
    \/ \E i \in Slot : CloneOp(i)
    \/ \E i \in Slot : DropOp(i)
    \/ \E i \in Slot, j \in Slot : ConcatOp(MaxAllocDeep, i, j)
    \/ \E i \in Slot, v \in Value : AppendOp(MaxAllocDeep, i, v)
    \/ \E i \in Slot : LastOp(i)

SpecDeep == Init /\ [][NextDeep]_vars

\* The same caller with two more Nodes to allocate, a single element value
\* and no reads: enough for a concat to meet a tail whose Node is gone.
NextUnwind ==
    \/ EmptyOp
    \/ \E i \in Slot : CreateOp(MaxAllocUnwind, 1, i)
    \/ \E i \in Slot : PrependOp(MaxAllocUnwind, i, 1)
    \/ \E i \in Slot : CloneOp(i)
    \/ \E i \in Slot : DropOp(i)
    \/ \E i \in Slot, j \in Slot : ConcatOp(MaxAllocUnwind, i, j)
    \/ \E i \in Slot : AppendOp(MaxAllocUnwind, i, 1)

SpecUnwind == Init /\ [][NextUnwind]_vars

\* ------------------------------------------- the associativity scenario
\*   let lhs = a.clone().concat(&b).concat(&c);
\*   let rhs = a.concat(&b.concat(&c));
\* with a, b, c collected from sequences of at most MaxLen values. The caller
\* holds a, b, c in slots 1 to 3; slot 4 takes a.clone().concat(&b) and then
\* lhs, slot 2 takes b.concat(&c) and slot 1 takes rhs.
RECURSIVE SeqsUpTo(_)
SeqsUpTo(n) ==
    IF n = 0 THEN {<<>>}
    ELSE LET S == SeqsUpTo(n - 1) IN
         S \cup {<<v>> \o q : v \in Value, q \in {x \in S : Len(x) = n - 1}}

InitAssoc ==
    \E sa \in SeqsUpTo(MaxLen), sb \in SeqsUpTo(MaxLen), sc \in SeqsUpTo(MaxLen) :
        LET ra == from_iter([n \in Node |-> Freed], 0, sa)
            rb == from_iter(ra.heap, ra.nalloc, sb)
            rc == from_iter(rb.heap, rb.nalloc, sc)
        IN /\ rc.st = "ok"
           /\ heap = rc.heap
           /\ nalloc = rc.nalloc
           /\ lists = <<ra.list, rb.list, rc.list, NoList>>
           /\ result = Res("init", "ok", 0, 0)
           /\ pc = "ab"

\* self.concat(&right) with self in slot i (moved) and right in slot j, the
\* returned list stored in slot i, as one step of the scenario.
AssocConcat(ls, i, j, to) ==
    LET r == concat(heap, nalloc, ls, ls[i], ls[j], {})
        out == [ls EXCEPT ![i] = r.list]
    IN /\ Running
       /\ r.st # "nomem"
       /\ lists' = out
       /\ heap' = Sweep(r.heap, Heads(out))
       /\ nalloc' = r.nalloc
       /\ result' = Res("concat", IF r.st = "ok" THEN r.path ELSE r.st, 0, 0)
       /\ pc' = to

AssocAB == pc = "ab" /\ AssocConcat([lists EXCEPT ![4] = lists[1]], 4, 2, "lhs")

AssocLHS == pc = "lhs" /\ AssocConcat(lists, 4, 3, "bc")

AssocBC == pc = "bc" /\ AssocConcat(lists, 2, 3, "rhs")

AssocRHS == pc = "rhs" /\ AssocConcat(lists, 1, 2, "done")

NextAssoc == AssocAB \/ AssocLHS \/ AssocBC \/ AssocRHS

SpecAssoc == InitAssoc /\ [][NextAssoc]_vars

\* ------------------------------------------------- the threads scenario
\*   let l = List::create(1, .. List::create(1, e)), with e = List::empty()
\*           or e = List::empty().prepend(1);
\*   let x_t = l.clone() or l.prepend(v) or List::create(v, l.clone());
\*   let r_t = from_iter(sr_t);
\*   (drop(l))
\*   thread t:  x_t = x_t.concat(&r_t);
\* The caller's values are lists[1] = l, lists[2t] = x_t, lists[2t + 1] = r_t.
\* Each thread runs List::concat one shared-memory access at a time.
Thread == 1..MaxThreads
SelfSlot(t) == 2 * t
RightSlot(t) == 2 * t + 1

\* A thread before its call: no locals.
\*   at:    position ("start", "cas", "down", "tail", "set", "store", "immut",
\*          and the final "done", "panic", "overflow", "uaf")
\*   link:  the head Node of self the call works on
\*   rc:    the eagerly evaluated right.clone() of map_or is alive
\*   top:   `list`, the clone of self that concat_mut works on
\*   cur:   the Node (None: `list`) whose List the recursion has reached
\*   stack: the frames of concat_mut, each with the List it works on (loc)
\*          and its `head` local (link)
\*   path:  the Nodes whose frames of concat_list are waiting
\*   tries: the compare_and_swap calls made
\*   pend:  the fields of the List being assigned or cloned that are done
\*   kind:  how x_t was made from l
\*   want:  the elements of x_t followed by those of r_t, before the call
Idle ==
    [at |-> "start", link |-> None, rc |-> FALSE, top |-> NoList, cur |-> None,
     stack |-> <<>>, path |-> <<>>, tries |-> 0, pend |-> {}, kind |-> "clone",
     want |-> <<>>]

\* The ways a thread's value is made from l.
Kinds == {"clone", "prepend", "create"}

\* The list l of n elements whose innermost list is e.
RECURSIVE base_list(_, _, _, _)
base_list(h, na, n, e) ==
    IF n = 0 THEN [st |-> "ok", heap |-> h, nalloc |-> na, list |-> e]
    ELSE LET r == base_list(h, na, n - 1, e) IN create(r.heap, r.nalloc, 1, r.list)

Final == {"done", "panic", "overflow", "uaf"}

\* A stack overflow or a use after free ends the process.
Aborted(p) == \E t \in Thread : p[t].at \in {"overflow", "uaf"}

\* The strong handles that thread t's locals hold on Node n.
Temps(ls, p, t, n) ==
    (IF p[t].rc /\ ls[RightSlot(t)].head = n THEN 1 ELSE 0)
    + (IF p[t].top.head = n THEN 1 ELSE 0)
    + Cardinality({k \in 1..Len(p[t].stack) : p[t].stack[k].link = n})

\* Arc::strong_count with the threads' locals counted in.
par_strong_count(h, ls, p, n) ==
    LET tc[k \in 0..MaxThreads] ==
            IF k = 0 THEN 0 ELSE tc[k - 1] + Temps(ls, p, k, n)
    IN strong_count(h, ls, n) + tc[MaxThreads]

ParRoots(ls, p) ==
    Heads(ls) \cup {n \in Node : \E t \in Thread : Temps(ls, p, t, n) > 0}

InitPar ==
    \E n \in 0..MaxBase, inner \in {"empty", "prepend"}, keep \in BOOLEAN,
       kind \in [Thread -> Kinds], sr \in [Thread -> SeqsUpTo(MaxLen)] :
        LET h0 == [m \in Node |-> Freed]
            e == IF inner = "empty" THEN [heap |-> h0, nalloc |-> 0, list |-> empty]
                 ELSE prepend(h0, 0, empty, 1)
            base == IF inner = "empty" THEN base_list(e.heap, e.nalloc, n, e.list)
                    ELSE base_list(e.heap, e.nalloc, n - 1, e.list)
            st[k \in 0..MaxThreads] ==
                IF k = 0
                THEN [heap |-> base.heap, nalloc |-> base.nalloc, ls |-> <<base.list>>,
                      want |-> <<>>]
                ELSE LET s == st[k - 1]
                         x == CASE kind[k] = "clone" ->
                                     [heap |-> s.heap, nalloc |-> s.nalloc, list |-> base.list]
                                [] kind[k] = "prepend" ->
                                     prepend(s.heap, s.nalloc, base.list, MaxVal)
                                [] kind[k] = "create" ->
                                     create(s.heap, s.nalloc, MaxVal, base.list)
                         r == from_iter(x.heap, x.nalloc, sr[k])
                     IN [heap |-> r.heap, nalloc |-> r.nalloc,
                         ls |-> s.ls \o <<x.list, r.list>>,
                         want |-> Append(s.want, Elems(r.heap, x.list) \o sr[k])]
            ls0 == st[MaxThreads].ls
            ls1 == IF keep THEN ls0 ELSE [ls0 EXCEPT ![1] = NoList]
        IN /\ inner = "prepend" => n >= 1
           /\ lists = ls1
           /\ heap = Sweep(st[MaxThreads].heap, Heads(ls1))
           /\ nalloc = st[MaxThreads].nalloc
           /\ result = Res("init", "ok", 0, 0)
           /\ pc = [t \in Thread |->
                       [Idle EXCEPT !.kind = kind[t], !.want = st[MaxThreads].want[t]]]

\* What every step of a thread ends with: the Nodes that lost their last
\* strong handle are deallocated.
ParStep(t, h, na, ls, p, op, res, n) ==
    /\ heap' = Sweep(h, ParRoots(ls, p))
    /\ nalloc' = na
    /\ lists' = ls
    /\ pc' = p
    /\ result' = Res(op, res, t, n)

\* concat up to the strong_count test: right.clone() is evaluated, then the
\* empty cases return, then Arc::strong_count(link) picks the path.
ParStart(t) ==
    LET self == lists[SelfSlot(t)]
        right == lists[RightSlot(t)]
        link == self.head
        p1 == [pc EXCEPT ![t].rc = TRUE, ![t].link = link]
    IN
    /\ ~Aborted(pc) /\ pc[t].at = "start"
    /\ IF link = None THEN
           ParStep(t, heap, nalloc, [lists EXCEPT ![SelfSlot(t)] = right],
                   [pc EXCEPT ![t].at = "done"], "start", "right", None)
       ELSE IF right.size = 0 THEN
           ParStep(t, heap, nalloc, lists,
                   [pc EXCEPT ![t].at = "done", ![t].link = link], "start", "self", link)
       ELSE IF par_strong_count(heap, lists, p1, link) # 1 THEN
           ParStep(t, heap, nalloc, lists,
                   [p1 EXCEPT ![t].at = "immut", ![t].cur = link], "start", "immut", link)
       ELSE
           ParStep(t, heap, nalloc, lists, [p1 EXCEPT ![t].at = "cas"], "start", "cas", link)

\* node.mutating.compare_and_swap(false, true) on the head Node of self; on
\* success `list = self.clone()` and concat_mut is entered.
ParCas(t) ==
    LET link == pc[t].link
        p1 == [pc EXCEPT ![t].tries = @ + 1]
    IN
    /\ ~Aborted(pc) /\ pc[t].at = "cas"
    /\ IF heap[link].mutating THEN
           ParStep(t, heap, nalloc, lists,
                   [p1 EXCEPT ![t].at = "immut", ![t].cur = link], "cas", "busy", link)
       ELSE
           ParStep(t, [heap EXCEPT ![link].mutating = TRUE], nalloc, lists,
                   [p1 EXCEPT ![t].at = "down", ![t].top = lists[SelfSlot(t)],
                              ![t].cur = None],
                   "cas", "won", link)

\* The List a frame of thread t's concat_mut works on.
ParList(h, p, t, loc) == IF loc = None THEN p[t].top ELSE h[loc].next

\* The locals of a call that has returned or unwound.
ParLeave(p, t, at) ==
    [p EXCEPT ![t].at = at, ![t].rc = FALSE, ![t].top = NoList, ![t].cur = None,
              ![t].stack = <<>>, ![t].path = <<>>, ![t].pend = {}]

\* concat_mut on the way down: `match self.head.clone()`. With a head the
\* frame keeps the link and calls concat_mut on that Node's next; without one
\* its `head` is right.head and the frame goes on to its tail.
ParDown(t) ==
    LET loc == pc[t].cur
        l == ParList(heap, pc, t, loc)
    IN
    /\ ~Aborted(pc) /\ pc[t].at = "down"
    /\ IF loc # None /\ ~heap[loc].live THEN
           ParStep(t, heap, nalloc, lists, [pc EXCEPT ![t].at = "uaf"], "down", "uaf", loc)
       ELSE IF l.head = None THEN
           ParStep(t, heap, nalloc, lists,
                   [pc EXCEPT ![t].at = "tail",
                              ![t].stack = Append(@, [loc |-> loc, link |-> None])],
                   "down", "bottom", loc)
       ELSE IF Len(pc[t].stack) >= Fuel THEN
           ParStep(t, heap, nalloc, lists, [pc EXCEPT ![t].at = "overflow"],
                   "down", "overflow", loc)
       ELSE
           ParStep(t, heap, nalloc, lists,
                   [pc EXCEPT ![t].cur = l.head,
                              ![t].stack = Append(@, [loc |-> loc, link |-> l.head])],
                   "down", "call", l.head)

\* concat_mut, `if let Some(ref link) = self.tail`: the weak tail is upgraded
\* and unwrapped and that Node's next becomes right.clone(). A tail that is
\* gone panics: the call unwinds, the thread's values are dropped and the
\* flag that concat claimed stays set.
ParTail(t) ==
    LET f == pc[t].stack[Len(pc[t].stack)]
        right == lists[RightSlot(t)]
        tl == ParList(heap, pc, t, f.loc).tail
    IN
    /\ ~Aborted(pc) /\ pc[t].at = "tail"
    /\ IF tl = None THEN
           ParStep(t, heap, nalloc, lists, [pc EXCEPT ![t].at = "set"], "tail", "none", None)
       ELSE IF ~upgrade(heap, tl) THEN
           ParStep(t, heap, nalloc,
                   [lists EXCEPT ![SelfSlot(t)] = NoList, ![RightSlot(t)] = NoList],
                   ParLeave(pc, t, "panic"), "tail", "unwrap_tail", tl)
       ELSE
           ParStep(t, [heap EXCEPT ![tl].next = right], nalloc, lists,
                   [pc EXCEPT ![t].at = "set"], "tail", "write", tl)

\* concat_mut, the assignments to self.head, self.tail and self.size; the
\* frame returns to its caller, the outermost one to concat.
ParSet(t) ==
    LET n == Len(pc[t].stack)
        f == pc[t].stack[n]
        right == lists[RightSlot(t)]
        l == ParList(heap, pc, t, f.loc)
        new == [head |-> IF f.link # None THEN f.link ELSE right.head,
                tail |-> right.tail,
                size |-> l.size + right.size]
        p1 == [pc EXCEPT ![t].stack = SubSeq(@, 1, n - 1),
                         ![t].at = IF n = 1 THEN "store" ELSE "tail"]
    IN
    /\ ~Aborted(pc) /\ pc[t].at = "set"
    /\ IF f.loc = None
       THEN ParStep(t, heap, nalloc, lists, [p1 EXCEPT ![t].top = new], "set", "local", None)
       ELSE ParStep(t, [heap EXCEPT ![f.loc].next = new], nalloc, lists, p1,
                    "set", "node", f.loc)

\* node.mutating.store(false) and the return of `list`.
ParStore(t) ==
    /\ ~Aborted(pc) /\ pc[t].at = "store"
    /\ ParStep(t, [heap EXCEPT ![pc[t].link].mutating = FALSE], nalloc,
               [lists EXCEPT ![SelfSlot(t)] = pc[t].top],
               ParLeave(pc, t, "done"), "store", "mut", pc[t].link)

\* The list that the waiting frames of concat_list build once the last Node of
\* the chain is reached: create(data, ..) for each Node of the path, last first.
RECURSIVE copy_chain(_, _, _, _)
copy_chain(h, na, path, right) ==
    IF path = <<>> THEN [st |-> "ok", heap |-> h, nalloc |-> na, list |-> right]
    ELSE LET r == copy_chain(h, na, Tail(path), right) IN
         IF r.st # "ok" THEN r ELSE create(r.heap, r.nalloc, h[Head(path)].data, r.list)

\* concat_immut / Node::concat_list, one Node at a time: a Node that has a
\* next calls concat_list on it; the last Node creates the first copy with
\* right after it, and the waiting frames create theirs as they return. A Node
\* that another thread's write has deallocated meanwhile is a use after free.
ParImmut(t) ==
    LET n == pc[t].cur
        right == lists[RightSlot(t)]
        path == Append(pc[t].path, n)
        r == copy_chain(heap, nalloc, path, right)
    IN
    /\ ~Aborted(pc) /\ pc[t].at = "immut"
    /\ IF ~heap[n].live THEN
           ParStep(t, heap, nalloc, lists, [pc EXCEPT ![t].at = "uaf"], "immut", "uaf", n)
       ELSE IF heap[n].next.head # None THEN
           IF Len(path) > Fuel
           THEN ParStep(t, heap, nalloc, lists, [pc EXCEPT ![t].at = "overflow"],
                        "immut", "overflow", n)
           ELSE ParStep(t, heap, nalloc, lists,
                        [pc EXCEPT ![t].path = path, ![t].cur = heap[n].next.head],
                        "immut", "call", n)
       ELSE IF \E m \in 1..Len(path) : ~heap[path[m]].live THEN
           ParStep(t, heap, nalloc, lists, [pc EXCEPT ![t].at = "uaf"], "immut", "uaf", n)
       ELSE
           /\ r.st = "ok"
           /\ ParStep(t, r.heap, r.nalloc, [lists EXCEPT ![SelfSlot(t)] = r.list],
                      ParLeave(pc, t, "done"), "immut", "copied", n)

NextPar ==
    \E t \in Thread :
        \/ ParStart(t)
        \/ ParCas(t)
        \/ ParDown(t)
        \/ ParTail(t)
        \/ ParSet(t)
        \/ ParStore(t)
        \/ ParImmut(t)

SpecPar == InitPar /\ [][NextPar]_vars

\* ------------------------------------------------- a reader beside a splice
\* Thread 1 runs x.concat(&r) on x = List::create(v, l.clone()), whose head
\* it alone holds, while thread 2 iterates over a clone of l. The Nodes of l
\* are reached through UnsafeCell without synchronisation, so the stores of
\* the one thread and the loads of the other interleave field by field.

\* The fields of a List in the order of their declaration.
Fields == <<"head", "tail", "size">>

\* The first field that is not done yet.
NextField(done) ==
    Fields[CHOOSE k \in 1..Len(Fields) :
               Fields[k] \notin done /\ \A j \in 1..(k - 1) : Fields[j] \in done]

AllFields == {Fields[k] : k \in 1..Len(Fields)}

InitTorn ==
    \E n \in 1..MaxBase, sr \in SeqsUpTo(MaxLen) \ {<<>>} :
        LET h0 == [m \in Node |-> Freed]
            base == base_list(h0, 0, n, empty)
            x == create(base.heap, base.nalloc, MaxVal, base.list)
            r == from_iter(x.heap, x.nalloc, sr)
        IN /\ lists = <<base.list, x.list, r.list, base.list, NoList>>
           /\ heap = r.heap
           /\ nalloc = r.nalloc
           /\ result = Res("init", "ok", 0, 0)
           /\ pc = [t \in Thread |->
                       IF t = 1 THEN [Idle EXCEPT !.kind = "create"]
                       ELSE [Idle EXCEPT !.at = "iter"]]

\* concat_mut, `tail_node.next = right.clone()`: the weak tail is upgraded
\* and unwrapped once, then the three fields of that Node's next are stored,
\* in an order the build is free to choose.
TornTail(t) ==
    LET f == pc[t].stack[Len(pc[t].stack)]
        right == lists[RightSlot(t)]
        tl == IF pc[t].pend = {} THEN ParList(heap, pc, t, f.loc).tail ELSE pc[t].cur
    IN
    /\ ~Aborted(pc) /\ pc[t].at = "tail"
    /\ IF tl = None THEN
           ParStep(t, heap, nalloc, lists, [pc EXCEPT ![t].at = "set"], "tail", "none", None)
       ELSE IF ~upgrade(heap, tl) THEN
           ParStep(t, heap, nalloc,
                   [lists EXCEPT ![SelfSlot(t)] = NoList, ![RightSlot(t)] = NoList],
                   ParLeave(pc, t, "panic"), "tail", "unwrap_tail", tl)
       ELSE
           \E fld \in AllFields \ pc[t].pend :
               LET done == pc[t].pend \cup {fld} IN
               ParStep(t, [heap EXCEPT ![tl].next[fld] = right[fld]], nalloc, lists,
                       IF done = AllFields
                       THEN [pc EXCEPT ![t].at = "set", ![t].pend = {}, ![t].cur = None]
                       ELSE [pc EXCEPT ![t].pend = done, ![t].cur = tl],
                       "tail", "write", tl)

\* concat_mut, the assignments to self.head, self.tail and self.size, one
\* statement at a time; after the last one the frame returns to its caller,
\* the outermost one to concat.
TornSet(t) ==
    LET n == Len(pc[t].stack)
        f == pc[t].stack[n]
        right == lists[RightSlot(t)]
        l == ParList(heap, pc, t, f.loc)
        new == [head |-> IF f.link # None THEN f.link ELSE right.head,
                tail |-> right.tail,
                size |-> l.size + right.size]
        fld == NextField(pc[t].pend)
        done == pc[t].pend \cup {fld}
        p1 == IF done = AllFields
              THEN [pc EXCEPT ![t].stack = SubSeq(@, 1, n - 1), ![t].pend = {},
                              ![t].at = IF n = 1 THEN "store" ELSE "tail"]
              ELSE [pc EXCEPT ![t].pend = done]
    IN
    /\ ~Aborted(pc) /\ pc[t].at = "set"
    /\ IF f.loc = None
       THEN ParStep(t, heap, nalloc, lists, [p1 EXCEPT ![t].top[fld] = new[fld]],
                    "set", "local", None)
       ELSE ParStep(t, [heap EXCEPT ![f.loc].next[fld] = new[fld]], nalloc, lists, p1,
                    "set", "node", f.loc)

\* IntoIter::next: without a head the iteration ends; otherwise the head
\* Node's next is cloned, one field at a time, and becomes the iterator's
\* list. top is the clone being made, cur the Node it is made from.
TornRead(t) ==
    LET it == lists[SelfSlot(t)]
        node == IF pc[t].cur = None THEN it.head ELSE pc[t].cur
        fld == NextField(pc[t].pend)
        done == pc[t].pend \cup {fld}
        got == [pc[t].top EXCEPT ![fld] = heap[node].next[fld]]
    IN
    /\ ~Aborted(pc) /\ pc[t].at = "iter"
    /\ IF node = None THEN
           ParStep(t, heap, nalloc, lists, [pc EXCEPT ![t].at = "done"], "next", "none", None)
       ELSE IF done = AllFields THEN
           ParStep(t, heap, nalloc, [lists EXCEPT ![SelfSlot(t)] = got],
                   [pc EXCEPT ![t].top = NoList, ![t].cur = None, ![t].pend = {}],
                   "next", "some", node)
       ELSE
           ParStep(t, heap, nalloc, lists,
                   [pc EXCEPT ![t].top = got, ![t].cur = node, ![t].pend = done],
                   "next", "field", node)

NextTorn ==
    \E t \in Thread :
        \/ ParStart(t)
        \/ ParCas(t)
        \/ ParDown(t)
        \/ TornTail(t)
        \/ TornSet(t)
        \/ ParStore(t)
        \/ TornRead(t)

SpecTorn == InitTorn /\ [][NextTorn]_vars

\* ------------------------------------------------------------------ claims
\* The chain from l.head reaches an empty link.
Acyclic(h, l) == Len(Elems(h, l)) < IterBound

\* C1 (persistence): no operation changes the element sequence that iterating
\* a List value yields, for any List value the caller held before the
\* operation and still holds after it.
C1_Persistence ==
    [][\A k \in Slot :
          (lists[k] # NoList /\ lists'[k] = lists[k])
              => Elems(heap', lists'[k]) = Elems(heap, lists[k])]_vars

\* What list[i] yields: the element, or the way the access fails.
At(h, l, i) == <<index(h, l, i).res, index(h, l, i).a>>

\* C2 (concat correctness): whenever self.concat(&right) returns, the list it
\* returns has len() = len(self) + len(right), and its element at every offset
\* idx is self[idx] for idx < len(self) and right[idx - len(self)] otherwise.
C2_ConcatCorrect ==
    [][\A i \in Slot, j \in Slot :
          (ConcatOp(MaxAlloc, i, j) /\ result'.res \notin Fatal)
              => /\ len(lists'[i]) = len(lists[i]) + len(lists[j])
                 /\ \A idx \in 0..(len(lists[i]) + len(lists[j]) - 1) :
                        /\ At(heap', lists'[i], idx)[1] = "ok"
                        /\ At(heap', lists'[i], idx) =
                               IF idx < len(lists[i])
                               THEN At(heap, lists[i], idx)
                               ELSE At(heap, lists[j], idx - len(lists[i]))]_vars

\* C3 (length invariant): for every held List value, len() is the number of
\* elements that iterating it yields.
C3_LengthInvariant ==
    \A k \in Held(lists) : len(lists[k]) = Len(Elems(heap, lists[k]))

\* The Node at which the chain from l.head ends (None for an empty or a
\* cyclic chain).
RECURSIVE LastNode(_, _, _)
LastNode(h, n, fuel) ==
    IF n = None \/ fuel = 0 THEN None
    ELSE IF h[n].next.head = None THEN n
    ELSE LastNode(h, h[n].next.head, fuel - 1)

\* C4 (tail invariant): for every held List value, tail is None iff head is
\* None; otherwise tail designates the last Node of the chain from head, and
\* last() is absent only for the empty list and otherwise is the element at
\* index len() - 1.
C4_TailInvariant ==
    \A k \in Held(lists) :
        LET l == lists[k] IN
        /\ (l.tail = None) <=> (l.head = None)
        /\ l.head # None => l.tail = LastNode(heap, l.head, Fuel)
        /\ (last(heap, l).res = "none") <=> (len(l) = 0)
        /\ len(l) > 0 => /\ last(heap, l).res = "some"
                         /\ index(heap, l, len(l) - 1).res = "ok"
                         /\ last(heap, l).a = index(heap, l, len(l) - 1).a

\* C5 (weak tail resolvable): the weak tail of every held non-empty List value
\* upgrades, and neither last() nor concat panics on a tail that is gone.
C5_TailResolvable ==
    /\ \A k \in Held(lists) : lists[k].tail # None => upgrade(heap, lists[k].tail)
    /\ result.res # "unwrap_tail"

\* C6 (out-of-bounds index): list[idx] with idx >= len() fails with the
\* out-of-bounds panic that reports the length and the index, visits no Node
\* and changes neither a Node nor a list.
C6_IndexOutOfBounds ==
    [][\A i \in Slot, idx \in 0..MaxIdx :
          (IndexOp(i, idx) /\ idx >= len(lists[i]))
              => /\ result' = ResSeen("index", "oob", len(lists[i]), idx, 0)
                 /\ heap' = heap
                 /\ lists' = lists]_vars

\* list[len()] has been evaluated and has failed.
C6_Witness == result.op = "index" /\ result.res = "oob" /\ result.b = result.a

\* C7 (in-bounds index agrees with iteration): list[idx] with idx < len()
\* succeeds and is the idx-th element that iterating the list yields.
C7_IndexAgrees ==
    [][\A i \in Slot, idx \in 0..MaxIdx :
          (IndexOp(i, idx) /\ idx < len(lists[i]))
              => /\ result'.res = "ok"
                 /\ idx < Len(Elems(heap, lists[i]))
                 /\ result'.a = Elems(heap, lists[i])[idx + 1]]_vars

\* C8 (identity laws): for every list A, concat(empty(), A) == A and
\* concat(A, empty()) == A evaluate to true, and both return the non-empty
\* operand as it is (same head, tail and size) without allocating or writing
\* a Node and without claiming a mutation flag.
C8_Identity ==
    [][\A i \in Slot, j \in Slot :
          (ConcatOp(MaxAlloc, i, j) /\ (lists[i] = empty \/ lists[j] = empty))
              => LET A == IF lists[i] = empty THEN lists[j] ELSE lists[i] IN
                 /\ lists'[i] = A
                 /\ lists'[j] = lists[j]
                 /\ heap' = heap
                 /\ nalloc' = nalloc
                 /\ result'.res = IF lists[i] = empty THEN "right" ELSE "self"
                 /\ eq(heap', lists'[i], A, EqFuel) = "true"]_vars

\* C9 (associativity): at the end of the scenario lhs and rhs have the same
\* length and the same elements in the same order.
C9_Associativity ==
    pc = "done" /\ Running
        => /\ len(lists[4]) = len(lists[1])
           /\ Elems(heap, lists[4]) = Elems(heap, lists[1])

\* C10 (prepend is pure structural sharing): L.prepend(v) allocates exactly
\* one Node, leaves every other Node and every held list as it was, and
\* returns a list of size len(L) + 1 whose first element is v and whose
\* remaining elements are L's elements in order.
C10_PrependPure ==
    [][\A i \in Slot, v \in Value :
          PrependOp(MaxAlloc, i, v)
              => LET L == lists[i]
                     P == lists'[FreeSlot]
                 IN
                 /\ nalloc' = nalloc + 1
                 /\ ~heap[nalloc'].live /\ heap'[nalloc'].live
                 /\ \A n \in Node \ {nalloc'} : heap'[n] = heap[n]
                 /\ \A k \in Held(lists) : lists'[k] = lists[k]
                 /\ len(P) = len(L) + 1
                 /\ At(heap', P, 0) = <<"ok", v>>
                 /\ Iterate(heap', P, IterBound + 1) = <<v>> \o Elems(heap, L)
                 /\ Elems(heap', lists'[i]) = Elems(heap, L)]_vars

\* A value has been prepended to a non-empty list.
C10_Witness == result.op = "prepend" /\ \E k \in Held(lists) : len(lists[k]) >= 2

\* C12 (equality): a == b returns, and it is true exactly when len(a) = len(b)
\* and a[k] = b[k] for every k < len(a); lists of unequal lengths compare
\* false.
C12_Equality ==
    [][\A i \in Slot, j \in Slot :
          EqOp(i, j)
              => LET a == lists[i]
                     b == lists[j]
                     same == /\ len(a) = len(b)
                             /\ \A k \in 0..(len(a) - 1) :
                                    /\ At(heap, a, k)[1] = "ok"
                                    /\ At(heap, a, k) = At(heap, b, k)
                 IN /\ result'.res \in {"true", "false"}
                    /\ (result'.res = "true") <=> same
                    /\ len(a) # len(b) => result'.res = "false"]_vars

\* C13 (finiteness): following next from any Node reaches the empty link, so
\* no chain leads back into itself.
C13_Finiteness ==
    \A n \in Node :
        heap[n].live => Len(Iterate(heap, heap[n].next, MaxNodes)) < MaxNodes

\* C14 (shared head forces the copy path): when both operands are non-empty
\* and self's head has a strong count other than 1, concat takes the copy
\* path: the result starts with len(self) fresh Nodes that hold self's
\* elements in order and continues with right's head; no existing Node is
\* written and right is left as it was.
C14_SharedHeadCopies ==
    [][\A i \in Slot, j \in Slot :
          (/\ ConcatOp(MaxAlloc, i, j)
           /\ lists[i].head # None /\ lists[j].size # 0
           /\ strong_count(heap, lists, lists[i].head) # 1)
              => LET self == lists[i]
                     right == lists[j]
                     out == lists'[i]
                     fresh == (nalloc + 1)..nalloc'
                 IN /\ result'.res = "immut"
                    /\ nalloc' = nalloc + len(self)
                    /\ len(out) = len(self) + len(right)
                    /\ \A k \in 0..(len(self) - 1) : At(heap', out, k) = At(heap, self, k)
                    /\ \A n \in fresh : heap'[n].live
                    /\ \E e \in fresh : heap'[e].next = right
                    /\ out.head \in fresh
                    /\ \A n \in fresh : heap'[n].next.head \in fresh \cup {right.head}
                    /\ \A n \in Node \ fresh : heap'[n] = heap[n]
                    /\ lists'[j] = right]_vars

\* C15 (the guard is taken on the last Node): the Node whose flag concat
\* compare-and-swaps is the last Node of self's chain, the one that self's
\* cached tail designates.
C15_GuardOnLastNode ==
    [][\A t \in Thread :
          ParCas(t)
              => LET self == lists[SelfSlot(t)] IN
                 /\ pc[t].link = self.tail
                 /\ pc[t].link = LastNode(heap, self.head, Fuel)]_vars

\* Thread t writes the next field of Node n in this step.
WritesNode(t, n) ==
    \/ ParTail(t) /\ result'.res = "write" /\ result'.b = n
    \/ ParSet(t) /\ result'.res = "node" /\ result'.b = n

\* C16 (splice only extends an empty tail link): every write of the in-place
\* path to a Node's next targets the last Node of self's chain and replaces
\* a next that is the empty list.
C16_SpliceExtendsEmptyTail ==
    [][\A t \in Thread, n \in Node :
          WritesNode(t, n)
              => /\ heap[n].next = empty
                 /\ n = LastNode(heap, lists[SelfSlot(t)].head, Fuel)]_vars

\* C17 (writes need exclusivity): when a concat writes the next field of a
\* Node, the writer holds that Node's flag and, its own locals apart, the Node
\* has exactly one strong handle.
C17_WriteExclusive ==
    [][\A t \in Thread, n \in Node :
          WritesNode(t, n)
              => /\ heap[n].mutating /\ pc[t].link = n
                 /\ par_strong_count(heap, lists, pc, n) - Temps(lists, pc, t, n) = 1]_vars

\* The Nodes of the chain that starts at Node n.
RECURSIVE Chain(_, _, _)
Chain(h, n, fuel) ==
    IF n = None \/ fuel = 0 THEN {}
    ELSE IF ~h[n].live THEN {n}
    ELSE {n} \cup Chain(h, h[n].next.head, fuel - 1)

\* Thread t is inside concat_mut, between winning the flag and its last write.
InPlace(t) == pc[t].at \in {"down", "tail", "set"}

\* C18 (mutual exclusion of splices): while a thread is inside the in-place
\* section on a chain, no other thread writes the next field of a Node of
\* that chain.
C18_SpliceMutex ==
    [][\A t \in Thread, n \in Node :
          WritesNode(t, n)
              => \A u \in Thread \ {t} :
                     ~(InPlace(u) /\ n \in Chain(heap, pc[u].link, Fuel))]_vars

\* C11 (concurrent splice safety): when the threads' values are clones of one
\* list, no thread's concat fails, each list returned has as its length the
\* sum of its operands' lengths and as its elements the left operand's
\* followed by the right operand's, and the list the clones were taken from
\* keeps its elements.
C11_ConcurrentSplice ==
    (\A u \in Thread : pc[u].kind = "clone")
        => /\ \A t \in Thread :
                 /\ pc[t].at \notin {"panic", "overflow", "uaf"}
                 /\ pc[t].at = "done"
                        => /\ len(lists[SelfSlot(t)]) = Len(pc[t].want)
                           /\ Elems(heap, lists[SelfSlot(t)]) = pc[t].want
           /\ lists[1] # NoList
                  => Elems(heap, lists[1]) = [k \in 1..len(lists[1]) |-> 1]

\* C19 (flag release on every exit path): a concat that claimed the flag of
\* self's head Node has stored false into it when the call is left, whether
\* it returns or unwinds from a panic inside the splice (a stack overflow
\* ends the process and leaves nothing behind), and between two calls no
\* live Node has its flag set.
C19_FlagRelease ==
    [][\A i \in Slot, j \in Slot :
          ConcatOp(MaxAllocUnwind, i, j)
              => LET r == concat(heap, nalloc, lists, lists[i], lists[j], {}) IN
                 /\ (r.path = "mut" /\ r.st # "overflow")
                        => ~r.heap[lists[i].head].mutating
                 /\ \A n \in Node : heap'[n].live => ~heap'[n].mutating]_vars

\* C20 (non-blocking fallback): a concat makes at most one compare-and-swap
\* and takes the copy path at once when it fails, and no call on these
\* acyclic lists ends otherwise than by returning.
C20_NonBlocking ==
    /\ \A t \in Thread :
           /\ pc[t].tries <= 1
           /\ pc[t].at \notin {"panic", "overflow", "uaf"}
    /\ (result.op = "cas" /\ result.res = "busy") => pc[result.a].at = "immut"

\* C22 (fast path reuses self's chain): when both operands are non-empty,
\* self's head has strong count 1 and its flag is free, concat returns a list
\* whose head is the Node that was self's head, whose size is self.size +
\* right.size and whose tail is right's tail; it allocates no Node, changes
\* no data, and a Node of the chain has right's head as its next.
C22_FastPathReuses ==
    [][\A i \in Slot, j \in Slot :
          (/\ ConcatOp(MaxAlloc, i, j)
           /\ lists[i].head # None
           /\ lists[j].head # None /\ lists[j].size # 0
           /\ strong_count(heap, lists, lists[i].head) = 1
           /\ ~heap[lists[i].head].mutating)
              => LET self == lists[i]
                     right == lists[j]
                     out == lists'[i]
                 IN /\ result'.res = "mut"
                    /\ nalloc' = nalloc
                    /\ out.head = self.head
                    /\ out.size = self.size + right.size
                    /\ out.tail = right.tail
                    /\ \A n \in Node : heap'[n].live => heap'[n].data = heap[n].data
                    /\ \E n \in Chain(heap', out.head, Fuel) : heap'[n].next.head = right.head
                    /\ lists'[j] = right]_vars

\* C24 (nested size consistency): for every Node reachable from a held
\* list, the size cached in its next equals the number of Nodes that follow
\* it, and is positive exactly when next has a head; the assertion of
\* Node::index never fails.
C24_NestedSize ==
    /\ \A k \in Held(lists) :
           \A n \in Chain(heap, lists[k].head, Fuel) :
               /\ heap[n].live
               /\ heap[n].next.size = Len(Elems(heap, heap[n].next))
               /\ heap[n].next.size > 0 <=> heap[n].next.head # None
    /\ result.op = "index" => result.res # "assert"

\* C21 (no torn reads): the next that an iteration obtains from the spliced
\* Node, the last Node of l, is either the empty list it held before the
\* splice or right as a whole: right's head, tail and size.
C21_NoTornReads ==
    [][\A t \in Thread :
          (TornRead(t) /\ result'.res = "some" /\ result'.b = lists[1].tail)
              => \E u \in Thread \ {t} :
                     lists'[SelfSlot(t)] \in {empty, lists[RightSlot(u)]}]_vars

\* C23 (strong counts track strong holders only): the head of a list that
\* create has just returned has strong count 1, its own weak tail not being
\* counted, and an in-place concat that returns leaves right's head with
\* exactly one strong holder more than before.
C23_StrongCounts ==
    [][/\ \A v \in Value, i \in Slot :
             CreateOp(MaxAlloc, v, i)
                 => strong_count(heap', lists', lists'[i].head) = 1
       /\ \A i \in Slot, j \in Slot :
             (ConcatOp(MaxAlloc, i, j) /\ result'.res = "mut")
                 => strong_count(heap', lists', lists[j].head)
                        = strong_count(heap, lists, lists[j].head) + 1]_vars

====
